---- MODULE Spec2Model ----
(***************************************************************************)
(* Model of core/audits/byte-efficiency/byte-efficiency-audit.js           *)
(* (class ByteEfficiencyAudit): the score curve, the transfer size         *)
(* estimate, the graph simulation of byte savings, the audit product and   *)
(* the audit entry point.                                                  *)
(*                                                                         *)
(* Times are whole milliseconds, sizes whole bytes.  Scores are exact      *)
(* rationals written as numerators over ScoreDen.  JavaScript values that  *)
(* may be undefined / NaN / Infinity are records [kind, val].              *)
(***************************************************************************)
EXTENDS Integers, Sequences, FiniteSets, TLC

VARIABLES
  graph,      \* the network records / nodes of the page dependency graph
  simulator,  \* the load simulator instance handed to the audit
  pc,         \* position of the running call
  frame,      \* locals of computeWasteWithGraph
  tti,        \* locals of computeWasteWithTTIGraph
  prod,       \* locals and return value of createAuditProduct
  aud,        \* locals and return value of audit
  score,      \* calls of scoreForWastedMs
  est         \* calls of estimateTransferSize

vars == <<graph, simulator, pc, frame, tti, prod, aud, score, est>>

-----------------------------------------------------------------------------
(* Bounds of the model *)

NumNodes == 2
MaxSize == 2
MaxWaste == 2
MaxItems == 2
MarginMs == 20
MaxDelta == 2
MaxTimeK == 3
MaxTotalBytes == 6
MaxBytes == 3

-----------------------------------------------------------------------------
(* JavaScript values *)

Num(n) == [kind |-> "number", val |-> n]
Undefined == [kind |-> "undefined", val |-> 0]
NaN == [kind |-> "NaN", val |-> 0]
Infinity == [kind |-> "Infinity", val |-> 0]

IsNum(v) == v.kind = "number"

\* ToBoolean: undefined, NaN and 0 are falsy
Truthy(v) == \/ v.kind = "Infinity"
             \/ (v.kind = "number" /\ v.val # 0)

\* v || 0, for values that are numbers, undefined or NaN
OrZero(v) == IF Truthy(v) THEN v ELSE Num(0)

\* a - b: NaN unless both are numbers
JsSub(a, b) == IF IsNum(a) /\ IsNum(b) THEN Num(a.val - b.val) ELSE NaN

\* Math.max(a, b): NaN if either argument is not a number
JsMax(a, b) ==
  IF IsNum(a) /\ IsNum(b)
  THEN Num(IF a.val >= b.val THEN a.val ELSE b.val)
  ELSE NaN

IntMax(a, b) == IF a >= b THEN a ELSE b

\* Math.round(num / den) for den > 0: the nearest integer, halves go up
JsRoundDiv(num, den) == (2 * num + den) \div (2 * den)

\* Math.round(x / 10) * 10
JsRound10(x) == JsRoundDiv(x, 10) * 10

-----------------------------------------------------------------------------
(* scoreForWastedMs *)

WASTED_MS_FOR_AVERAGE == 300
WASTED_MS_FOR_POOR == 750
WASTED_MS_FOR_SCORE_OF_ZERO == 5000

\* A score s is held as the integer s * ScoreDen; ScoreDen is the least
\* common multiple of 1200, 1800 and 8500, the denominators of the three slopes.
ScoreDen == 1200 * 255
ScoreOne == ScoreDen
ScoreThreeQuarters == (3 * ScoreDen) \div 4
ScoreHalf == ScoreDen \div 2

\* lib/statistics.js linearInterpolation: the line through (x0,y0), (x1,y1) at x
linearInterpolation(x0, y0, x1, y1, x) ==
  y0 + ((x - x0) * (y1 - y0)) \div (x1 - x0)

scoreForWastedMs_NoClamp(wastedMs) ==
  IF wastedMs <= 0 THEN ScoreOne
  ELSE IF wastedMs < WASTED_MS_FOR_AVERAGE
    THEN linearInterpolation(0, ScoreOne, WASTED_MS_FOR_AVERAGE, ScoreThreeQuarters, wastedMs)
  ELSE IF wastedMs < WASTED_MS_FOR_POOR
    THEN linearInterpolation(WASTED_MS_FOR_AVERAGE, ScoreThreeQuarters,
                             WASTED_MS_FOR_POOR, ScoreHalf, wastedMs)
  ELSE linearInterpolation(WASTED_MS_FOR_POOR, ScoreHalf,
                           WASTED_MS_FOR_SCORE_OF_ZERO, 0, wastedMs)

scoreForWastedMs(wastedMs) ==
  IF wastedMs <= 0 THEN ScoreOne
  ELSE IF wastedMs < WASTED_MS_FOR_AVERAGE
    THEN linearInterpolation(0, ScoreOne, WASTED_MS_FOR_AVERAGE, ScoreThreeQuarters, wastedMs)
  ELSE IF wastedMs < WASTED_MS_FOR_POOR
    THEN linearInterpolation(WASTED_MS_FOR_AVERAGE, ScoreThreeQuarters,
                             WASTED_MS_FOR_POOR, ScoreHalf, wastedMs)
  ELSE IntMax(0, linearInterpolation(WASTED_MS_FOR_POOR, ScoreHalf,
                                     WASTED_MS_FOR_SCORE_OF_ZERO, 0, wastedMs))

-----------------------------------------------------------------------------
(* estimateTransferSize *)

ResourceTypes == {"Stylesheet", "Script", "Document", "Image", "undefined"}

NoRecord == [present |-> FALSE, resourceType |-> "undefined",
             transferSize |-> Undefined, resourceSize |-> Undefined]

\* Math.round(totalBytes * pct / 100)
RoundPercent(totalBytes, pct) == JsRoundDiv(totalBytes * pct, 100)

estimateTransferSize_ScriptAsDefault(networkRecord, totalBytes, resourceType) ==
  IF ~networkRecord.present THEN
    CASE resourceType = "Stylesheet" -> RoundPercent(totalBytes, 20)
      [] OTHER -> RoundPercent(totalBytes, 50)
  ELSE IF networkRecord.resourceType = resourceType THEN
    OrZero(networkRecord.transferSize).val
  ELSE
    LET transferSize == OrZero(networkRecord.transferSize)
        resourceSize == OrZero(networkRecord.resourceSize)
    IN  IF IsNum(resourceSize) /\ resourceSize.val > 0
        THEN JsRoundDiv(totalBytes * transferSize.val, resourceSize.val)
        ELSE JsRoundDiv(totalBytes, 1)

estimateTransferSize(networkRecord, totalBytes, resourceType) ==
  IF ~networkRecord.present THEN
    CASE resourceType = "Stylesheet" -> RoundPercent(totalBytes, 20)
      [] resourceType \in {"Script", "Document"} -> RoundPercent(totalBytes, 33)
      [] OTHER -> RoundPercent(totalBytes, 50)
  ELSE IF networkRecord.resourceType = resourceType THEN
    OrZero(networkRecord.transferSize).val
  ELSE
    LET transferSize == OrZero(networkRecord.transferSize)
        resourceSize == OrZero(networkRecord.resourceSize)
    IN  \* Number.isFinite(resourceSize) && resourceSize > 0 ? ratio : 1
        IF IsNum(resourceSize) /\ resourceSize.val > 0
        THEN JsRoundDiv(totalBytes * transferSize.val, resourceSize.val)
        ELSE JsRoundDiv(totalBytes, 1)

-----------------------------------------------------------------------------
(* The dependency graph and the simulator *)

Nodes == 1..NumNodes
Urls == {"a", "b"}
ReqIds == 1..NumNodes

CpuNode == [type |-> "cpu", url |-> "", requestId |-> 0, transferSize |-> Undefined]
NetworkNode(u, id, ts) ==
  [type |-> "network", url |-> u, requestId |-> id, transferSize |-> ts]

\* transferSize of a record as the collector leaves it: a byte count, or missing
SizeValues == {Undefined} \cup {Num(n) : n \in 0..MaxSize}
NodeValues ==
  {CpuNode} \cup {NetworkNode(u, id, ts) : u \in Urls, id \in ReqIds, ts \in SizeValues}
Graphs == [Nodes -> NodeValues]

\* graphs whose request ids are the node numbers and whose sizes are measured
PlainNodeValues(n) ==
  {CpuNode} \cup {NetworkNode(u, n, Num(MaxSize)) : u \in Urls}
PlainGraphs == {g \in [Nodes -> NodeValues] : \A n \in Nodes : g[n] \in PlainNodeValues(n)}

\* wastedBytes of an item or of a map entry
WasteValues == (0 - 1)..MaxWaste
Items == [url : Urls, wastedBytes : WasteValues]
ItemLists == UNION {[1..k -> Items] : k \in 0..MaxItems}

\* a Map<string, number>: Undefined stands for "no entry"
EmptyMap == [u \in Urls |-> Undefined]
WasteMaps == [Urls -> {Undefined} \cup {Num(w) : w \in WasteValues}]
NotProvided == [given |-> FALSE, map |-> EmptyMap]
Provided(m) == [given |-> TRUE, map |-> m]

\* a Simulation.Result: timeInMs, and the end of the last long task in its
\* nodeTimings (what LanternInteractive.getLastLongTaskEndTime reads from it)
SimResult(t, l) == [timeInMs |-> t, lastLongTaskEnd |-> l]
NoSim == SimResult(0, 0)
getLastLongTaskEndTime(sim) == sim.lastLongTaskEnd

FineTimes == {0} \cup UNION {{5 * k - 1, 5 * k, 5 * k + 1} : k \in 1..MaxTimeK}
ResultsOver(times) == UNION {{SimResult(t, 0), SimResult(t, t)} : t \in times}
Simulators(times, rates) ==
  [results : {ResultsOver(times)}, msPerByte : rates]

\* what simulator.simulate(graph) reads: the nodes of the graph it is given
GraphView(g, nodes) == [n \in nodes |-> g[n]]

\* simulator.simulate: some result of the simulator, and the same result for the
\* same graph contents as the "before" run of the running call
SimulateResults(sim, g, nodes, seenBefore, before) ==
  IF seenBefore.valid /\ GraphView(g, nodes) = seenBefore.view
  THEN {before}
  ELSE sim.results

NeverSeen == [valid |-> FALSE, view |-> <<>>]
Seen(g, nodes) == [valid |-> TRUE, view |-> GraphView(g, nodes)]

-----------------------------------------------------------------------------
(* computeWasteWithGraph *)

NoOriginals == [id \in ReqIds |-> Undefined]

NoFrame ==
  [results |-> <<>>, label |-> "", provided |-> NotProvided, nodes |-> {},
   caller |-> "none", preCall |-> <<>>, wastedBytesByUrl |-> EmptyMap,
   originalTransferSizes |-> NoOriginals,
   simulationBeforeChanges |-> NoSim, simulationAfterChanges |-> NoSim,
   savings |-> 0]

\* lines 169-171: wastedBytesByUrl.set(url, (wastedBytesByUrl.get(url) || 0) + wastedBytes)
RECURSIVE SumByUrl(_, _, _)
SumByUrl(results, i, m) ==
  IF i > Len(results) THEN m
  ELSE LET item == results[i]
       IN  SumByUrl(results, i + 1,
             [m EXCEPT ![item.url] = Num(OrZero(m[item.url]).val + item.wastedBytes)])

\* lines 167-172
EffectiveWasteMap(results, provided) ==
  IF provided.given THEN provided.map ELSE SumByUrl(results, 1, EmptyMap)

\* line 185
ReducedSize(original, wastedBytes) == JsMax(JsSub(original, wastedBytes), Num(0))

\* lines 177-186: graph.traverse in traversal order, from node i on
RECURSIVE ApplyWaste(_, _, _, _, _)
ApplyWaste(i, g, originals, nodes, wasteMap) ==
  IF i > NumNodes THEN [graph |-> g, originalTransferSizes |-> originals]
  ELSE IF i \notin nodes \/ g[i].type # "network"
    THEN ApplyWaste(i + 1, g, originals, nodes, wasteMap)
  ELSE LET wastedBytes == wasteMap[g[i].url]
           original == g[i].transferSize
       IN  IF ~Truthy(wastedBytes)
           THEN ApplyWaste(i + 1, g, originals, nodes, wasteMap)
           ELSE ApplyWaste(i + 1,
                  [g EXCEPT ![i].transferSize = ReducedSize(original, wastedBytes)],
                  [originals EXCEPT ![g[i].requestId] = original],
                  nodes, wasteMap)

\* lines 191-196
RestoreSizes(g, originals, nodes) ==
  [n \in Nodes |->
     IF n \in nodes /\ g[n].type = "network"
        /\ originals[g[n].requestId] # Undefined
     THEN [g[n] EXCEPT !.transferSize = originals[g[n].requestId]]
     ELSE g[n]]

\* lines 198-202
RoundedSavings_NoFloor(before, after) == JsRound10(before - after)

RoundedSavings(before, after) == JsRound10(IntMax(before - after, 0))

\* a call has returned or thrown, and its caller has not yet let go of the outcome
Finished == {"returned:graph", "returned:tti", "returned:product", "returned:audit",
             "threw"}

\* the engine is entered only on graphs whose sizes are within the model
SizesInBounds ==
  \A n \in Nodes : IsNum(graph[n].transferSize) => graph[n].transferSize.val <= MaxSize

\* lines 160-163: the call is entered; the "before" run comes next
EnterGraphCall(results, nodes, label, provided, caller) ==
  /\ frame' = [NoFrame EXCEPT !.results = results, !.label = label,
                              !.provided = provided, !.nodes = nodes,
                              !.caller = caller, !.preCall = graph]
  /\ pc' = "before"

\* a direct call of computeWasteWithGraph(results, graph, simulator, options)
CallComputeWasteWithGraph(results, provided) ==
  /\ pc = "idle"
  /\ SizesInBounds
  /\ EnterGraphCall(results, Nodes, "", provided, "direct")
  /\ UNCHANGED <<graph, simulator, tti, prod, aud, score, est>>

\* line 165, then lines 167-186: the "before" run returns, the sizes are overwritten
SimulateBefore ==
  /\ pc = "before"
  /\ \E r \in SimulateResults(simulator, graph, frame.nodes, NeverSeen, NoSim) :
       LET wasteMap == EffectiveWasteMap(frame.results, frame.provided)
           applied == ApplyWaste(1, graph, NoOriginals, frame.nodes, wasteMap)
       IN  /\ graph' = applied.graph
           /\ frame' = [frame EXCEPT !.simulationBeforeChanges = r,
                                     !.wastedBytesByUrl = wasteMap,
                                     !.originalTransferSizes = applied.originalTransferSizes]
  /\ pc' = "after"
  /\ UNCHANGED <<simulator, tti, prod, aud, score, est>>

\* line 165 throws
SimulateBeforeThrows ==
  /\ pc = "before"
  /\ pc' = "threw"
  /\ UNCHANGED <<graph, simulator, frame, tti, prod, aud, score, est>>

\* line 188, then lines 191-205: the "after" run returns, the sizes are restored
SimulateAfter ==
  /\ pc = "after"
  /\ \E r \in SimulateResults(simulator, graph, frame.nodes,
                              Seen(frame.preCall, frame.nodes),
                              frame.simulationBeforeChanges) :
       frame' = [frame EXCEPT
                   !.simulationAfterChanges = r,
                   !.savings = RoundedSavings(frame.simulationBeforeChanges.timeInMs,
                                              r.timeInMs)]
  /\ graph' = RestoreSizes(graph, frame.originalTransferSizes, frame.nodes)
  /\ pc' = IF frame.caller = "direct" THEN "returned:graph" ELSE "ret:" \o frame.caller
  /\ UNCHANGED <<simulator, tti, prod, aud, score, est>>

\* line 188 throws: the error leaves computeWasteWithGraph and its callers
SimulateAfterThrows ==
  /\ pc = "after"
  /\ pc' = "threw"
  /\ UNCHANGED <<graph, simulator, frame, tti, prod, aud, score, est>>

-----------------------------------------------------------------------------
(* computeWasteWithTTIGraph *)

IncludeLoadOptions == {"absent", "true", "false"}

\* line 221: Object.assign({includeLoad: true}, options)
IncludeLoad(option) == IF option = "absent" THEN TRUE ELSE option = "true"

NoTti == [includeLoad |-> "absent", caller |-> "none", ret |-> 0]

\* lines 228-236
TtiSavings_Sum(savingsOnOverallLoad, before, after, includeLoad) ==
  LET savingsOnTTI == getLastLongTaskEndTime(before) - getLastLongTaskEndTime(after)
  IN  JsRound10(IntMax(IF IncludeLoad(includeLoad)
                       THEN savingsOnTTI + savingsOnOverallLoad
                       ELSE savingsOnTTI, 0))

TtiSavings(savingsOnOverallLoad, before, after, includeLoad) ==
  LET savingsOnTTI == getLastLongTaskEndTime(before) - getLastLongTaskEndTime(after)
      savings == IF IncludeLoad(includeLoad)
                 THEN IntMax(savingsOnTTI, savingsOnOverallLoad)
                 ELSE savingsOnTTI
  IN  JsRound10(IntMax(savings, 0))

\* lines 220-226
EnterTtiCall(results, provided, includeLoad, caller) ==
  /\ tti' = [includeLoad |-> includeLoad, caller |-> caller, ret |-> 0]
  /\ EnterGraphCall(results, Nodes, "overallLoad", provided, "tti")

\* a direct call of computeWasteWithTTIGraph(results, graph, simulator, options)
CallComputeWasteWithTTIGraph(results, provided, includeLoad) ==
  /\ pc = "idle"
  /\ SizesInBounds
  /\ EnterTtiCall(results, provided, includeLoad, "direct")
  /\ UNCHANGED <<graph, simulator, prod, aud, score, est>>

\* lines 228-236, after computeWasteWithGraph returned to a direct TTI call
TtiReturn ==
  /\ pc = "ret:tti"
  /\ tti.caller = "direct"
  /\ tti' = [tti EXCEPT !.ret = TtiSavings(frame.savings, frame.simulationBeforeChanges,
                                           frame.simulationAfterChanges, tti.includeLoad)]
  /\ pc' = "returned:tti"
  /\ UNCHANGED <<graph, simulator, frame, prod, aud, score, est>>

-----------------------------------------------------------------------------
(* createAuditProduct *)

GatherModes == {"navigation", "timespan", "snapshot"}
DisplayValues == {"undefined", "custom"}

\* a ByteEfficiencyProduct: items, wastedBytesByUrl (optional), displayValue (optional)
DetectorResult(items, provided, displayValue) ==
  [items |-> items, provided |-> provided, displayValue |-> displayValue]
NoResult == DetectorResult(<<>>, NotProvided, "undefined")

NoProduct ==
  [displayValue |-> "", numericValue |-> 0, score |-> 0,
   metricSavings |-> [FCP |-> 0, LCP |-> 0],
   details |-> [items |-> <<>>, overallSavingsMs |-> 0, overallSavingsBytes |-> 0]]

NoProd ==
  [result |-> NoResult, gatherMode |-> "none", caller |-> "none", pristine |-> <<>>,
   wastedBytes |-> 0, wastedMs |-> 0, fcpNodes |-> {}, lcpNodes |-> {},
   fcpSavings |-> 0, ret |-> NoProduct]

\* line 248: Array.prototype.sort with (a, b) => b.wastedBytes - a.wastedBytes (stable)
RECURSIVE InsertByWaste(_, _)
InsertByWaste(sorted, item) ==
  IF sorted = <<>> THEN <<item>>
  ELSE IF Head(sorted).wastedBytes >= item.wastedBytes
    THEN <<Head(sorted)>> \o InsertByWaste(Tail(sorted), item)
  ELSE <<item>> \o sorted

RECURSIVE SortByWaste(_)
SortByWaste(items) ==
  IF items = <<>> THEN <<>>
  ELSE InsertByWaste(SortByWaste(SubSeq(items, 1, Len(items) - 1)), items[Len(items)])

\* line 250
RECURSIVE SumWaste(_)
SumWaste(items) ==
  IF items = <<>> THEN 0 ELSE Head(items).wastedBytes + SumWaste(Tail(items))

\* simulator.computeWastedMsFromWastedBytes: time in proportion to the bytes
computeWastedMsFromWastedBytes(sim, wastedBytes) == wastedBytes * sim.msPerByte

\* lines 289-292
DisplayValue_AlwaysSavings(resultDisplayValue, wastedBytes) ==
  IF resultDisplayValue = "undefined" THEN "displayValueByteSavings"
  ELSE resultDisplayValue

DisplayValue(resultDisplayValue, wastedBytes) ==
  IF resultDisplayValue = "undefined" /\ wastedBytes # 0 THEN "displayValueByteSavings"
  ELSE IF resultDisplayValue = "undefined" THEN ""
  ELSE resultDisplayValue

\* lines 289-310
AuditProduct(p, wastedMs, fcpSavings, lcpSavings) ==
  [displayValue |-> DisplayValue(p.result.displayValue, p.wastedBytes),
   numericValue |-> wastedMs,
   score |-> scoreForWastedMs(wastedMs),
   metricSavings |-> [FCP |-> fcpSavings, LCP |-> lcpSavings],
   details |-> [items |-> p.result.items, overallSavingsMs |-> wastedMs,
                overallSavingsBytes |-> p.wastedBytes]]

\* lines 248-256
EnterProduct(result, mode, caller) ==
  LET results == SortByWaste(result.items)
  IN  [NoProd EXCEPT !.result = [result EXCEPT !.items = results],
                     !.gatherMode = mode, !.caller = caller, !.pristine = graph,
                     !.wastedBytes = SumWaste(results)]

ProductReturnPc(caller) ==
  IF caller = "audit" THEN "returned:audit" ELSE "returned:product"

\* lines 248-268 in navigation mode: up to the "before" run of the overall load
ProductNavigation(result, caller) ==
  /\ SizesInBounds
  /\ prod' = EnterProduct(result, "navigation", caller)
  /\ EnterTtiCall(prod'.result.items, result.provided, "absent", "product")
  /\ UNCHANGED <<graph, simulator, score, est>>

\* lines 262, 264: graph or processedNavigation is missing in navigation mode
ProductMissingInput(result, caller) ==
  /\ prod' = EnterProduct(result, "navigation", caller)
  /\ pc' = "threw"
  /\ UNCHANGED <<graph, simulator, frame, tti, score, est>>

\* lines 248-310 in the other gather modes
ProductOther(result, mode, caller) ==
  /\ mode # "navigation"
  /\ LET p == EnterProduct(result, mode, caller)
         wastedMs == computeWastedMsFromWastedBytes(simulator, p.wastedBytes)
     IN  prod' = [p EXCEPT !.wastedMs = wastedMs,
                           !.ret = AuditProduct(p, wastedMs, 0, 0)]
  /\ pc' = ProductReturnPc(caller)
  /\ UNCHANGED <<graph, simulator, frame, tti, score, est>>

\* a direct call of createAuditProduct(result, graph, simulator, processedNavigation, ctx)
CallCreateAuditProduct(result, graphGiven, navigationGiven, mode) ==
  /\ pc = "idle"
  /\ \/ mode = "navigation" /\ graphGiven /\ navigationGiven
        /\ ProductNavigation(result, "direct")
     \/ mode = "navigation" /\ ~(graphGiven /\ navigationGiven)
        /\ ProductMissingInput(result, "direct")
     \/ ProductOther(result, mode, "direct")
  /\ UNCHANGED aud

\* the pessimistic graphs of a metric: the root and some of the other nodes,
\* sharing their records with the graph they come from
PessimisticGraphs == {nodes \in SUBSET Nodes : 1 \in nodes}

\* lines 266-277: the overall load savings are in; the first-paint call starts
ProductAfterLoad ==
  /\ pc = "ret:tti"
  /\ tti.caller = "product"
  /\ \E fcpNodes \in PessimisticGraphs, lcpNodes \in PessimisticGraphs :
       /\ prod' = [prod EXCEPT
                     !.wastedMs = TtiSavings(frame.savings, frame.simulationBeforeChanges,
                                             frame.simulationAfterChanges, tti.includeLoad),
                     !.fcpNodes = fcpNodes, !.lcpNodes = lcpNodes]
       /\ EnterGraphCall(prod.result.items, fcpNodes, "fcp", prod.result.provided, "fcp")
  /\ tti' = [tti EXCEPT !.ret = prod'.wastedMs]
  /\ UNCHANGED <<graph, simulator, aud, score, est>>

\* lines 274-281: the first-paint savings are in; the largest-paint call starts
ProductAfterFcp ==
  /\ pc = "ret:fcp"
  /\ prod' = [prod EXCEPT !.fcpSavings = frame.savings]
  /\ EnterGraphCall(prod.result.items, prod.lcpNodes, "lcp", prod.result.provided, "lcp")
  /\ UNCHANGED <<graph, simulator, tti, aud, score, est>>

\* lines 278-310: the largest-paint savings are in; the product is returned
ProductAfterLcp ==
  /\ pc = "ret:lcp"
  /\ prod' = [prod EXCEPT
                !.ret = AuditProduct(prod, prod.wastedMs, prod.fcpSavings, frame.savings)]
  /\ pc' = ProductReturnPc(prod.caller)
  /\ UNCHANGED <<graph, simulator, frame, tti, aud, score, est>>

-----------------------------------------------------------------------------
(* audit *)

Tasks == {"audit_", "graph", "simulator", "processedNavigation"}

\* transferSize of the records NetworkRecords.request resolves with
RecordLists == UNION {[1..k -> {Undefined, Num(0), Num(MaxSize)}] : k \in 0..MaxItems}

\* line 124: networkRecords.some(record => record.transferSize)
HasContentfulRecords(records) == \E i \in 1..Len(records) : Truthy(records[i])

NoAud ==
  [gatherMode |-> "none", awaited |-> FALSE, hasContentfulRecords |-> FALSE,
   tasks |-> [t \in Tasks |-> "none"], notApplicable |-> FALSE, score |-> 0]

\* lines 113-123: audit is called and awaits the network records
AuditCall(mode) ==
  /\ pc = "idle"
  /\ aud' = [NoAud EXCEPT !.gatherMode = mode]
  /\ pc' = "audit:records"
  /\ UNCHANGED <<graph, simulator, frame, tti, prod, score, est>>

\* line 123: NetworkRecords.request fails
AuditRecordsFail ==
  /\ pc = "audit:records"
  /\ pc' = "threw"
  /\ UNCHANGED <<graph, simulator, frame, tti, prod, aud, score, est>>

\* lines 123-134: no bytes were downloaded in a timespan
AuditNotApplicable(records) ==
  /\ pc = "audit:records"
  /\ ~HasContentfulRecords(records) /\ aud.gatherMode = "timespan"
  /\ aud' = [aud EXCEPT !.awaited = TRUE, !.hasContentfulRecords = FALSE,
                        !.notApplicable = TRUE, !.score = ScoreOne]
  /\ pc' = "returned:audit"
  /\ UNCHANGED <<graph, simulator, frame, tti, prod, score, est>>

\* lines 136-146: the four entries of Promise.all; a null entry is not requested
FanOut(mode) ==
  [t \in Tasks |->
     IF t \in {"graph", "processedNavigation"} /\ mode # "navigation"
     THEN "null" ELSE "pending"]

AuditFanOut(records) ==
  /\ pc = "audit:records"
  /\ ~(~HasContentfulRecords(records) /\ aud.gatherMode = "timespan")
  /\ aud' = [aud EXCEPT !.awaited = TRUE,
                        !.hasContentfulRecords = HasContentfulRecords(records),
                        !.tasks = FanOut(aud.gatherMode)]
  /\ pc' = "audit:join"
  /\ UNCHANGED <<graph, simulator, frame, tti, prod, score, est>>

\* line 137: audit_ throws before it returns a promise (as the base class does)
AuditDetectorThrows(records) ==
  /\ pc = "audit:records"
  /\ ~(~HasContentfulRecords(records) /\ aud.gatherMode = "timespan")
  /\ aud' = [aud EXCEPT !.awaited = TRUE,
                        !.hasContentfulRecords = HasContentfulRecords(records),
                        !.tasks = [aud.tasks EXCEPT !["audit_"] = "rejected"]]
  /\ pc' = "threw"
  /\ UNCHANGED <<graph, simulator, frame, tti, prod, score, est>>

TaskResolves(t) ==
  /\ pc = "audit:join"
  /\ aud.tasks[t] = "pending"
  /\ aud' = [aud EXCEPT !.tasks[t] = "resolved"]
  /\ UNCHANGED <<graph, simulator, pc, frame, tti, prod, score, est>>

TaskRejects(t) ==
  /\ pc = "audit:join"
  /\ aud.tasks[t] = "pending"
  /\ aud' = [aud EXCEPT !.tasks[t] = "rejected"]
  /\ UNCHANGED <<graph, simulator, pc, frame, tti, prod, score, est>>

\* line 136: Promise.all rejects as soon as one entry has rejected
AuditJoinFails ==
  /\ pc = "audit:join"
  /\ \E t \in Tasks : aud.tasks[t] = "rejected"
  /\ pc' = "threw"
  /\ UNCHANGED <<graph, simulator, frame, tti, prod, aud, score, est>>

AllSettled_AnyResolved(tasks) ==
  /\ \E t \in Tasks : tasks[t] = "resolved"
  /\ \A t \in Tasks : tasks[t] # "rejected"

\* line 136: Promise.all resolves once every entry has
AllSettled(tasks) == \A t \in Tasks : tasks[t] \in {"resolved", "null"}

\* lines 136-148: the join resolves and createAuditProduct is called
AuditJoin(result) ==
  /\ pc = "audit:join"
  /\ AllSettled(aud.tasks)
  /\ \/ aud.gatherMode = "navigation" /\ ProductNavigation(result, "audit")
     \/ ProductOther(result, aud.gatherMode, "audit")
  /\ UNCHANGED aud

\* the caller lets go of the outcome of a finished call; the graph stays as it is
Discard ==
  /\ pc \in Finished
  /\ pc' = "idle"
  /\ frame' = NoFrame
  /\ tti' = NoTti
  /\ prod' = NoProd
  /\ aud' = NoAud
  /\ UNCHANGED <<graph, simulator, score, est>>

-----------------------------------------------------------------------------
(* Calls of the two pure functions *)

WastedMsValues == (0 - MarginMs)..(WASTED_MS_FOR_SCORE_OF_ZERO + MarginMs)

NoScore == [wastedMs |-> 0, result |-> 0, prevWastedMs |-> 0, prevResult |-> 0,
            calls |-> 0]

\* scoreForWastedMs(wastedMs) is called for the first time
ScoreFirstCall ==
  /\ score.calls = 0
  /\ score' = [score EXCEPT !.result = scoreForWastedMs(score.wastedMs), !.calls = 1]
  /\ UNCHANGED <<graph, simulator, pc, frame, tti, prod, aud, est>>

\* scoreForWastedMs is called again, for a larger wastedMs
ScoreNextCall(d) ==
  /\ score.calls >= 1
  /\ score.wastedMs + d \in WastedMsValues
  /\ score' = [wastedMs |-> score.wastedMs + d,
               result |-> scoreForWastedMs(score.wastedMs + d),
               prevWastedMs |-> score.wastedMs, prevResult |-> score.result,
               calls |-> 2]
  /\ UNCHANGED <<graph, simulator, pc, frame, tti, prod, aud, est>>

EstTransferSizes == {Undefined, NaN, Num(4000)} \cup {Num(n) : n \in 0..MaxBytes}
EstResourceSizes ==
  {Undefined, NaN, Infinity, Num(0 - 1)} \cup {Num(n) : n \in 0..MaxBytes}
EstRecords ==
  {NoRecord} \cup [present : {TRUE}, resourceType : ResourceTypes,
                   transferSize : EstTransferSizes, resourceSize : EstResourceSizes]
EstTotalBytes == 0..MaxTotalBytes \cup {50, 500, 1000}

NoEst == [networkRecord |-> NoRecord, totalBytes |-> 0, resourceType |-> "undefined",
          result |-> 0, called |-> FALSE]

\* estimateTransferSize(networkRecord, totalBytes, resourceType) is called
EstimateCall ==
  /\ ~est.called
  /\ est' = [est EXCEPT
               !.result = estimateTransferSize(est.networkRecord, est.totalBytes,
                                               est.resourceType),
               !.called = TRUE]
  /\ UNCHANGED <<graph, simulator, pc, frame, tti, prod, aud, score>>

-----------------------------------------------------------------------------
(* Specifications *)

NoGraph == [n \in Nodes |-> CpuNode]
NoSimulator == [results |-> {NoSim}, msPerByte |-> 0]

Quiet ==
  /\ pc = "idle" /\ frame = NoFrame /\ tti = NoTti /\ prod = NoProd /\ aud = NoAud

\* Spec: computeWasteWithGraph called over and over on one graph
Init ==
  /\ graph \in Graphs
  /\ simulator \in Simulators({0, 15}, {0})
  /\ Quiet /\ score = NoScore /\ est = NoEst

Next ==
  \/ \E results \in ItemLists : CallComputeWasteWithGraph(results, NotProvided)
  \/ \E m \in WasteMaps : CallComputeWasteWithGraph(<<>>, Provided(m))
  \/ SimulateBefore
  \/ SimulateBeforeThrows
  \/ SimulateAfter
  \/ SimulateAfterThrows
  \/ Discard

Spec == Init /\ [][Next]_vars

\* SpecTTI: computeWasteWithGraph and computeWasteWithTTIGraph over simulators
\* with many results
TtiProvided == {NotProvided} \cup {Provided(m) : m \in [Urls -> {Undefined, Num(1)}]}

InitTTI ==
  /\ graph \in PlainGraphs
  /\ simulator \in Simulators(FineTimes, {0})
  /\ Quiet /\ score = NoScore /\ est = NoEst

NextTTI ==
  \/ \E p \in TtiProvided : CallComputeWasteWithGraph(<<>>, p)
  \/ \E p \in TtiProvided, includeLoad \in IncludeLoadOptions :
       CallComputeWasteWithTTIGraph(<<>>, p, includeLoad)
  \/ SimulateBefore
  \/ SimulateBeforeThrows
  \/ SimulateAfter
  \/ SimulateAfterThrows
  \/ TtiReturn
  \/ Discard

SpecTTI == InitTTI /\ [][NextTTI]_vars

\* SpecProduct: one call of createAuditProduct
\* node 1 is the root, the request of the main document
ProductNodeValues(n) ==
  IF n = 1
  THEN {NetworkNode("a", n, ts) : ts \in {Undefined, Num(MaxSize)}}
  ELSE {CpuNode, NetworkNode("b", n, Num(MaxSize))}
ProductGraphs ==
  {g \in [Nodes -> NodeValues] : \A n \in Nodes : g[n] \in ProductNodeValues(n)}
ProductItems == {[url |-> "a", wastedBytes |-> 1], [url |-> "b", wastedBytes |-> MaxWaste]}
ProductItemLists == UNION {[1..k -> ProductItems] : k \in 0..MaxItems}
ProductProvided ==
  {NotProvided, Provided(EmptyMap), Provided([EmptyMap EXCEPT !["b"] = Num(1)])}
ProductResults ==
  {DetectorResult(items, p, d) :
     items \in ProductItemLists, p \in ProductProvided, d \in DisplayValues}

InitProduct ==
  /\ graph \in ProductGraphs
  /\ simulator \in Simulators({15}, {0, 4})
  /\ Quiet /\ score = NoScore /\ est = NoEst

ProductSteps ==
  \/ SimulateBefore
  \/ SimulateBeforeThrows
  \/ SimulateAfter
  \/ SimulateAfterThrows
  \/ ProductAfterLoad
  \/ ProductAfterFcp
  \/ ProductAfterLcp

NextProduct ==
  \/ \E result \in ProductResults, graphGiven \in BOOLEAN, navigationGiven \in BOOLEAN,
        mode \in GatherModes :
       CallCreateAuditProduct(result, graphGiven, navigationGiven, mode)
  \/ ProductSteps

SpecProduct == InitProduct /\ [][NextProduct]_vars

\* SpecAudit: one call of audit
AuditResults ==
  {DetectorResult(items, p, "undefined") :
     items \in {<<>>, <<[url |-> "a", wastedBytes |-> 1]>>}, p \in TtiProvided}

InitAudit ==
  /\ graph \in ProductGraphs
  /\ simulator \in Simulators({15}, {4})
  /\ Quiet /\ score = NoScore /\ est = NoEst

NextAudit ==
  \/ \E mode \in GatherModes : AuditCall(mode)
  \/ AuditRecordsFail
  \/ \E records \in RecordLists : AuditNotApplicable(records)
  \/ \E records \in RecordLists : AuditFanOut(records)
  \/ \E records \in RecordLists : AuditDetectorThrows(records)
  \/ \E t \in Tasks : TaskResolves(t)
  \/ \E t \in Tasks : TaskRejects(t)
  \/ AuditJoinFails
  \/ \E result \in AuditResults : AuditJoin(result)
  \/ ProductSteps

SpecAudit == InitAudit /\ [][NextAudit]_vars

\* SpecScore: scoreForWastedMs over a range of inputs
InitScore ==
  /\ score \in {[NoScore EXCEPT !.wastedMs = x] : x \in WastedMsValues}
  /\ graph = NoGraph /\ simulator = NoSimulator /\ Quiet /\ est = NoEst

NextScore ==
  \/ ScoreFirstCall
  \/ \E d \in 1..MaxDelta : ScoreNextCall(d)

SpecScore == InitScore /\ [][NextScore]_vars

\* SpecEstimate: estimateTransferSize over a range of inputs
InitEstimate ==
  /\ est \in {[NoEst EXCEPT !.networkRecord = r, !.totalBytes = b, !.resourceType = t] :
                r \in EstRecords, b \in EstTotalBytes, t \in ResourceTypes}
  /\ graph = NoGraph /\ simulator = NoSimulator /\ Quiet /\ score = NoScore

NextEstimate == EstimateCall

SpecEstimate == InitEstimate /\ [][NextEstimate]_vars

-----------------------------------------------------------------------------
(* Claims *)

\* C1: when computeWasteWithGraph returns normally, every node of the graph has
\* the transferSize it had before the call, whatever the graph and the wasted
\* bytes, also after any number of earlier calls on the same graph.
C1_GraphUnchangedOnReturn ==
  pc = "returned:graph" => graph = frame.preCall

\* C2: when the "after" run of the simulator throws, every overwritten
\* transferSize is back at its original value as the error leaves the call.
C2_GraphUnchangedOnError ==
  pc = "threw" => graph = frame.preCall

\* what C3 says a node of the "after" run holds
C3_Expected(original, wasteMap) ==
  IF original.type = "network" /\ IsNum(wasteMap[original.url])
     /\ wasteMap[original.url].val > 0
  THEN [original EXCEPT
          !.transferSize = JsMax(JsSub(original.transferSize, wasteMap[original.url]),
                                 Num(0))]
  ELSE original

\* C3: during the "after" run a network node whose url has a positive entry in
\* the wasted-bytes map holds max(original - wastedBytes, 0), every other node
\* holds its original value, and no size is above its original or below 0.
C3_AfterRunSizes ==
  pc = "after" =>
    \A n \in frame.nodes :
      /\ graph[n] = C3_Expected(frame.preCall[n], frame.wastedBytesByUrl)
      /\ IsNum(frame.preCall[n].transferSize) =>
           /\ IsNum(graph[n].transferSize)
           /\ graph[n].transferSize.val >= 0
           /\ graph[n].transferSize.val <= frame.preCall[n].transferSize.val

IsSavings(v) == v >= 0 /\ v % 10 = 0

\* C4: the savings computeWasteWithGraph returns and the value
\* computeWasteWithTTIGraph returns are non-negative multiples of 10, for every
\* pair of simulation results.
C4_SavingsAreMultiplesOf10 ==
  /\ pc \in {"returned:graph", "ret:tti", "returned:tti"} => IsSavings(frame.savings)
  /\ pc = "returned:tti" => IsSavings(tti.ret)

\* C4 witness: the "after" run took longer than the "before" run, and the TTI
\* value is still a positive multiple of 10
C4_Witness ==
  /\ pc = "returned:tti"
  /\ frame.simulationAfterChanges.timeInMs > frame.simulationBeforeChanges.timeInMs
  /\ frame.savings = 0
  /\ tti.ret > 0

\* C5: in a navigation-mode createAuditProduct the three simulations are
\* serialized: every "before" run starts with no size overwritten and sees only
\* original sizes, and every "after" run sees only the mutation of its own call.
C5_SimulationsSerialized ==
  /\ pc = "before" /\ prod.caller # "none" => graph = prod.pristine
  /\ pc = "after" /\ prod.caller # "none" =>
       graph = ApplyWaste(1, prod.pristine, NoOriginals, frame.nodes,
                          frame.wastedBytesByUrl).graph

\* the line through two consecutive anchors of the score curve
OnLine(x0, y0, x1, y1, x, y) == (y - y0) * (x1 - x0) = (y1 - y0) * (x - x0)

C6_OnCurve(x, y) ==
  /\ x <= 0 => y = ScoreOne
  /\ x >= 5000 => y = 0
  /\ x = 300 => 4 * y = 3 * ScoreOne
  /\ x = 750 => 2 * y = ScoreOne
  /\ x >= 0 /\ x <= 300 => OnLine(0, ScoreOne, 300, ScoreThreeQuarters, x, y)
  /\ x >= 300 /\ x <= 750 => OnLine(300, ScoreThreeQuarters, 750, ScoreHalf, x, y)
  /\ x >= 750 /\ x <= 5000 => OnLine(750, ScoreHalf, 5000, 0, x, y)

\* C6: scoreForWastedMs is in [0,1], is 1 up to 0, 0.75 at 300, 0.5 at 750, 0 from
\* 5000 on, linear between consecutive anchors, and never increases with wastedMs.
C6_ScoreCurve ==
  /\ score.calls >= 1 =>
       /\ score.result >= 0 /\ score.result <= ScoreOne
       /\ C6_OnCurve(score.wastedMs, score.result)
  /\ score.calls = 2 => score.prevResult >= score.result

\* C6 witness: the score at 750 is one half and below the score of a smaller input
C6_Witness ==
  /\ score.calls = 2
  /\ score.wastedMs = 750
  /\ 2 * score.result = ScoreOne
  /\ score.prevResult > score.result

\* r is num / den rounded to the nearest integer, halves up
IsRounded(r, num, den) ==
  /\ 2 * den * r <= 2 * num + den
  /\ 2 * num + den < 2 * den * (r + 1)

C7_Reference(record, totalBytes, resourceType, r) ==
  IF ~record.present THEN
    IF resourceType = "Stylesheet" THEN IsRounded(r, totalBytes * 20, 100)
    ELSE IF resourceType = "Script" \/ resourceType = "Document"
      THEN IsRounded(r, totalBytes * 33, 100)
    ELSE IsRounded(r, totalBytes * 50, 100)
  ELSE IF record.resourceType = resourceType THEN
    IF IsNum(record.transferSize) THEN r = record.transferSize.val ELSE r = 0
  ELSE
    LET ts == IF IsNum(record.transferSize) THEN record.transferSize.val ELSE 0
        ratioIsOne == \/ ~IsNum(record.resourceSize)
                      \/ record.resourceSize.val <= 0
    IN  IF ratioIsOne THEN r = totalBytes
        ELSE IsRounded(r, totalBytes * ts, record.resourceSize.val)

\* C7: estimateTransferSize is the three-case reference: a fixed share of
\* totalBytes without a record, the record's transferSize for a record of the
\* requested type, totalBytes times the record's compression ratio (1 if the
\* resourceSize is unusable) otherwise; and it is never negative.
C7_EstimateMatchesReference ==
  est.called =>
    /\ C7_Reference(est.networkRecord, est.totalBytes, est.resourceType, est.result)
    /\ est.result >= 0

\* C7 witness: a record of another type with resourceSize 0 gives totalBytes back
C7_Witness ==
  /\ est.called
  /\ est.networkRecord.present
  /\ est.networkRecord.resourceType # est.resourceType
  /\ est.networkRecord.resourceSize = Num(0)
  /\ est.totalBytes = 500
  /\ est.result = 500

\* v rounded to the nearest 10
IsRoundedTo10(r, v) == r % 10 = 0 /\ r - 5 <= v /\ v < r + 5

\* C8: computeWasteWithTTIGraph returns the larger of the critical-path savings
\* and the overall-load savings when includeLoad is true or absent, and the
\* critical-path savings alone when it is false, floored at 0 and rounded to 10.
C8_TtiValue ==
  pc = "returned:tti" =>
    LET criticalPath == frame.simulationBeforeChanges.lastLongTaskEnd
                        - frame.simulationAfterChanges.lastLongTaskEnd
        chosen == IF tti.includeLoad \in {"true", "absent"}
                  THEN IntMax(criticalPath, frame.savings)
                  ELSE criticalPath
    IN  IsRoundedTo10(tti.ret, IntMax(chosen, 0))

\* C8 witness: includeLoad is false and the overall-load savings, larger than the
\* critical-path savings, are left out
C8_Witness ==
  /\ pc = "returned:tti"
  /\ tti.includeLoad = "false"
  /\ frame.savings > tti.ret
  
\* C9: a timespan audit with no contentful record returns {score: 1,
\* notApplicable: true} with nothing else invoked; otherwise createAuditProduct
\* starts only after all four entries of the join have resolved, and never
\* after one of them has failed.
C9_AuditOrder ==
  /\ aud.awaited /\ aud.gatherMode = "timespan" /\ ~aud.hasContentfulRecords =>
       /\ pc = "returned:audit" /\ aud.notApplicable /\ aud.score = ScoreOne
       /\ \A t \in Tasks : aud.tasks[t] = "none"
       /\ frame = NoFrame /\ tti = NoTti /\ prod = NoProd
  /\ aud.notApplicable => aud.gatherMode = "timespan" /\ ~aud.hasContentfulRecords
  /\ prod.caller = "audit" =>
       \A t \in Tasks :
         \/ aud.tasks[t] = "resolved"
         \/ aud.tasks[t] = "null" /\ aud.gatherMode # "navigation"
                                  /\ t \in {"graph", "processedNavigation"}
  /\ (\E t \in Tasks : aud.tasks[t] = "rejected") => prod = NoProd

\* C9 witness: a navigation audit returned a product after the whole join
C9_Witness ==
  /\ pc = "returned:audit"
  /\ prod.caller = "audit"
  /\ aud.gatherMode = "navigation"
  /\ \A t \in Tasks : aud.tasks[t] = "resolved"

C10_Conclusion ==
  /\ prod.ret.numericValue = 0
  /\ prod.ret.score = ScoreOne
  /\ prod.ret.displayValue =
       (IF prod.result.displayValue = "undefined" THEN "" ELSE prod.result.displayValue)

\* C10 as stated: with an empty items list, in every gather mode and with or
\* without a wastedBytesByUrl map of the detector's own, createAuditProduct
\* returns numericValue 0, score 1 and no synthesized displayValue.
C10_EmptyItems ==
  pc = "returned:product" /\ prod.result.items = <<>> => C10_Conclusion

\* the detector's own map has a non-zero entry for the url of a network node
MapHitsGraph(provided, g) ==
  /\ provided.given
  /\ \E n \in Nodes : g[n].type = "network" /\ Truthy(provided.map[g[n].url])

\* C10 amended: with an empty items list createAuditProduct returns numericValue
\* 0, score 1 and no synthesized displayValue, in navigation mode provided the
\* detector's own map, if any, has no non-zero entry for the url of a network
\* node of the graph, and in the other gather modes always.
C10_EmptyItemsNoMapHit ==
  /\ pc = "returned:product"
  /\ prod.result.items = <<>>
  /\ prod.gatherMode = "navigation" => ~MapHitsGraph(prod.result.provided, prod.pristine)
  => C10_Conclusion

\* C10 witness: navigation mode, no items, a map of the detector's own that
\* touches no node, and a product with numericValue 0
C10_Witness ==
  /\ pc = "returned:product"
  /\ prod.gatherMode = "navigation"
  /\ prod.result.items = <<>>
  /\ prod.result.provided.given
  /\ prod.result.displayValue = "undefined"
  /\ prod.ret.numericValue = 0
  /\ prod.ret.displayValue = ""

====
